---- MODULE Spec2Model ----
(***************************************************************************)
(* clonelens (src/clonelens.py): offline ABI near-clone detector.          *)
(*                                                                         *)
(* The model covers the core pipeline: signature building, selector        *)
(* hashing, feature tokenizing, the 64-bit SimHash fold, selector Jaccard, *)
(* the combined score, and the ranking done by the `match` command.        *)
(*                                                                         *)
(* Representations                                                         *)
(*   - A Python str is a sequence of one-character strings, so that        *)
(*     lower(), concatenation, decimal/hex rendering and comparison are    *)
(*     computed character by character.                                    *)
(*   - A 64-bit integer is a bit vector [0..63 -> {0,1}], index 0 the      *)
(*     least significant bit (TLC integers are 32 bits wide).              *)
(*   - A Python float is an exact fraction <<num, den>> in lowest terms    *)
(*     with den > 0.  Every float the program computes is a quotient of    *)
(*     two small integers or a 0.6/0.4 blend of two such quotients.        *)
(*   - keccak(text=s) of eth_utils is the table KeccakTab of the true      *)
(*     Keccak-256 digests of every string the model can hash.              *)
(***************************************************************************)
EXTENDS Integers, Sequences, FiniteSets, TLC

VARIABLES
    pc,         \* position of the running routine
    sh_in,      \* simhash64: the argument `tokens`
    sh_k,       \* simhash64: number of tokens already folded
    vec,        \* simhash64: the 64 signed accumulators
    out,        \* simhash64: the returned fingerprint
    ja, jb,     \* jaccard: the two argument lists
    jres,       \* jaccard: the returned value
    files,      \* match: the ABI loaded from each expanded path, in order
    top,        \* match: the --top option
    views,      \* match: ContractView list built so far
    tokens,     \* extract_contract_view: token list of the latest call
    pairs,      \* match: PairReport list
    top_pairs,  \* match: the emitted list
    pi, pj      \* match: indices of the nested pair loop (1-based)

vars == <<pc, sh_in, sh_k, vec, out, ja, jb, jres,
          files, top, views, tokens, pairs, top_pairs, pi, pj>>

(***************************************************************************)
(* Bounds of the explored inputs.                                          *)
(***************************************************************************)
MaxTokens  == 3   \* longest token list handed to simhash64
MaxSelList == 2   \* longest selector list handed to jaccard
MaxMembers == 2   \* most members of one ABI (pair runs)
MaxFiles   == 3   \* most files of one match run (ranking runs)
MaxTop     == 2   \* largest explicit --top value

(***************************************************************************)
(* Program constants.                                                      *)
(***************************************************************************)
FpBits     == 64  \* width of the fingerprint
DefaultTop == 20  \* default of --top

(***************************************************************************)
(* Strings                                                                 *)
(***************************************************************************)
RECURSIVE Str(_)
\* The TLA+ string spelled by a character sequence (key of KeccakTab).
Str(s) == IF s = <<>> THEN "" ELSE Head(s) \o Str(Tail(s))

S_uint        == <<"u","i","n","t">>
S_int         == <<"i","n","t">>
S_256         == <<"2","5","6">>
S_uint256     == S_uint \o S_256
S_int256      == S_int \o S_256
S_function    == <<"f","u","n","c","t","i","o","n">>
S_event       == <<"e","v","e","n","t">>
S_constructor == <<"c","o","n","s","t","r","u","c","t","o","r">>
S_fallback    == <<"f","a","l","l","b","a","c","k">>
S_receive     == <<"r","e","c","e","i","v","e">>
S_payable     == <<"p","a","y","a","b","l","e">>
S_nonpayable  == <<"n","o","n">> \o S_payable
S_view        == <<"v","i","e","w">>
S_f           == <<"f">>
S_G           == <<"G">>

UpperChars == <<"A","B","C","D","E","F","G","H","I","J","K","L","M",
                "N","O","P","Q","R","S","T","U","V","W","X","Y","Z">>
LowerChars == <<"a","b","c","d","e","f","g","h","i","j","k","l","m",
                "n","o","p","q","r","s","t","u","v","w","x","y","z">>
HexChars   == <<"0","1","2","3","4","5","6","7","8","9","a","b","c","d","e","f">>
\* The characters selectors are made of, in ascending code-point order.
SelChars   == HexChars \o <<"x">>

\* str.lower() on one character.
LowerChar(c) ==
    IF \E k \in 1..Len(UpperChars) : UpperChars[k] = c
    THEN LowerChars[CHOOSE k \in 1..Len(UpperChars) : UpperChars[k] = c]
    ELSE c

\* str.lower().
Lower(s) == [k \in 1..Len(s) |-> LowerChar(s[k])]

RECURSIVE Dec(_)
\* str(n) for n >= 0, as formatted into an f-string.
Dec(n) == IF n < 10 THEN <<HexChars[n + 1]>>
          ELSE Dec(n \div 10) \o <<HexChars[(n % 10) + 1]>>

RECURSIVE Join(_)
\* ",".join(parts)
Join(parts) ==
    IF parts = <<>> THEN <<>>
    ELSE IF Len(parts) = 1 THEN parts[1]
    ELSE parts[1] \o <<",">> \o Join(Tail(parts))

\* Code point order of two selector characters.
Ord(c) == CHOOSE k \in 1..Len(SelChars) : SelChars[k] = c

RECURSIVE StrLess(_, _)
\* Python's s < t on strings.
StrLess(s, t) ==
    IF t = <<>> THEN FALSE
    ELSE IF s = <<>> THEN TRUE
    ELSE IF Head(s) = Head(t) THEN StrLess(Tail(s), Tail(t))
    ELSE Ord(Head(s)) < Ord(Head(t))

\* dict.get(key, default)
Get(d, key, default) == IF key \in DOMAIN d THEN d[key] ELSE default

Range(s) == {s[k] : k \in 1..Len(s)}

Min(a, b) == IF a < b THEN a ELSE b
Max(a, b) == IF a > b THEN a ELSE b

(***************************************************************************)
(* Floats as exact fractions                                               *)
(***************************************************************************)
RECURSIVE Gcd(_, _)
Gcd(a, b) == IF b = 0 THEN a ELSE Gcd(b, a % b)

Abs(n) == IF n < 0 THEN -n ELSE n

\* The float n/d (d > 0), in lowest terms.
Frac(n, d) == LET g == Gcd(Abs(n), d) IN <<n \div g, d \div g>>

FOne  == <<1, 1>>
FZero == <<0, 1>>
FAdd(x, y) == Frac(x[1] * y[2] + y[1] * x[2], x[2] * y[2])
FSub(x, y) == Frac(x[1] * y[2] - y[1] * x[2], x[2] * y[2])
FMul(x, y) == Frac(x[1] * y[1], x[2] * y[2])
FNeg(x)    == <<-x[1], x[2]>>
FLess(x, y) == x[1] * y[2] < y[1] * x[2]
FLeq(x, y)  == x[1] * y[2] <= y[1] * x[2]

(***************************************************************************)
(* Keccak-256 digests (32 bytes each) of the strings the model hashes.     *)
(***************************************************************************)
KeccakTab ==
   ("f" :> <<209,232,174,183,149,0,73,110,243,220,46,87,186,116,106,131,21,208,72,183,166,100,162,191,148,141,180,250,145,150,4,131>>) @@
   ("g" :> <<20,188,196,53,244,157,19,13,24,151,55,249,118,47,235,37,196,78,245,184,134,190,248,51,227,26,112,42,246,190,71,72>>) @@
   ("G" :> <<7,125,169,157,128,106,189,19,201,241,94,206,83,152,82,81,25,209,30,17,233,131,107,46,231,210,63,97,89,173,135,210>>) @@
   ("f()" :> <<38,18,31,240,37,166,186,64,207,39,188,251,124,213,11,203,142,171,100,136,24,38,175,55,96,86,76,158,31,250,113,235>>) @@
   ("f(uint)" :> <<105,60,97,57,61,98,2,39,58,231,145,52,164,161,219,251,254,239,144,140,127,193,253,142,205,205,152,215,215,163,167,214>>) @@
   ("f(uint256)" :> <<179,222,100,139,0,28,8,171,133,122,254,90,150,51,136,126,122,78,42,66,157,29,141,66,49,35,140,31,250,235,37,111>>) @@
   ("f(int)" :> <<245,39,118,38,187,168,72,212,145,152,31,79,223,55,100,67,117,94,210,141,234,81,54,7,62,214,149,248,215,20,252,201>>) @@
   ("f(int256)" :> <<28,0,141,249,69,86,167,32,214,49,134,201,52,159,14,52,158,96,249,82,62,147,36,159,44,219,196,209,75,222,209,125>>) @@
   ("f(uint,uint)" :> <<26,132,81,230,57,91,103,251,39,66,228,244,8,121,119,40,106,47,175,113,33,94,38,162,23,245,14,116,244,176,84,48>>) @@
   ("f(uint,uint256)" :> <<20,93,112,45,231,192,48,182,120,57,158,71,220,13,156,52,206,232,92,193,243,191,130,20,61,115,9,14,236,194,81,248>>) @@
   ("f(uint,int)" :> <<86,156,197,87,136,83,8,248,189,128,221,210,190,80,56,234,245,164,253,142,107,199,187,138,212,74,172,104,154,123,57,44>>) @@
   ("f(uint,int256)" :> <<5,250,83,190,204,202,43,195,90,78,163,97,253,125,109,207,109,246,86,29,119,164,196,218,52,186,115,40,141,53,219,11>>) @@
   ("f(uint256,uint)" :> <<146,116,241,29,123,36,70,217,89,199,206,36,192,64,49,215,78,178,72,2,239,81,196,239,55,90,247,239,121,158,173,74>>) @@
   ("f(uint256,uint256)" :> <<19,209,170,46,129,155,181,102,152,180,212,149,129,71,6,187,11,229,208,174,164,110,94,91,75,28,104,24,243,78,96,26>>) @@
   ("f(uint256,int)" :> <<208,225,95,214,116,121,85,34,43,178,89,113,224,166,56,113,228,168,26,80,180,183,205,69,201,96,186,171,16,173,29,137>>) @@
   ("f(uint256,int256)" :> <<226,149,120,224,163,88,19,15,41,31,246,89,198,171,19,196,146,134,28,233,238,205,177,158,106,66,73,33,143,179,142,252>>) @@
   ("f(int,uint)" :> <<172,81,197,212,222,222,214,231,44,7,186,136,44,253,84,183,249,56,85,198,223,180,33,61,93,239,233,59,231,79,36,249>>) @@
   ("f(int,uint256)" :> <<173,143,191,137,34,69,187,245,237,180,108,219,167,175,117,213,69,178,201,155,112,41,193,173,6,223,217,247,219,58,209,221>>) @@
   ("f(int,int)" :> <<72,206,210,224,41,243,248,234,32,245,183,45,146,11,16,6,12,220,213,62,189,108,132,216,151,146,239,137,120,178,47,197>>) @@
   ("f(int,int256)" :> <<120,56,140,221,115,0,50,27,42,158,167,229,204,175,137,207,14,254,10,99,244,221,181,181,59,24,71,49,182,226,3,52>>) @@
   ("f(int256,uint)" :> <<206,253,120,194,149,66,247,93,236,148,234,143,29,83,33,166,5,111,152,4,35,248,56,135,60,50,14,21,213,20,77,14>>) @@
   ("f(int256,uint256)" :> <<113,26,136,84,207,143,213,233,92,82,36,79,255,139,48,161,234,89,241,43,220,29,125,22,122,0,247,237,169,195,175,105>>) @@
   ("f(int256,int)" :> <<204,202,63,215,165,138,76,48,149,39,51,66,52,16,15,157,198,42,208,232,100,98,7,114,87,141,237,129,230,198,151,138>>) @@
   ("f(int256,int256)" :> <<10,253,180,234,90,46,195,205,230,98,21,130,249,21,93,168,127,219,188,105,94,10,239,157,174,80,50,56,48,175,75,69>>) @@
   ("G()" :> <<111,236,182,35,63,152,69,157,150,233,40,208,37,93,254,57,110,133,222,180,255,33,69,138,163,41,222,51,56,56,212,144>>) @@
   ("G(uint)" :> <<219,235,17,249,1,14,120,153,48,18,163,194,41,128,12,77,118,191,241,105,35,41,190,245,87,139,141,48,184,96,66,0>>) @@
   ("G(uint256)" :> <<124,182,62,200,72,194,80,46,249,196,158,237,42,95,135,158,49,242,32,34,145,204,218,101,159,154,139,56,140,135,130,240>>) @@
   ("G(int)" :> <<255,33,69,111,31,18,78,240,170,24,11,110,209,131,247,181,138,205,230,85,166,211,232,250,171,96,132,91,28,140,24,99>>) @@
   ("G(int256)" :> <<201,109,130,140,113,132,48,164,210,127,17,117,87,177,21,216,236,225,165,147,228,83,232,190,198,156,253,220,197,198,229,162>>) @@
   ("G(uint,uint)" :> <<25,99,14,123,211,226,114,58,7,236,7,225,254,46,136,48,9,115,48,8,250,242,203,125,39,141,16,58,126,241,79,226>>) @@
   ("G(uint,uint256)" :> <<94,234,61,158,82,221,231,223,188,25,11,212,125,236,222,198,176,13,5,225,22,135,118,154,253,198,120,152,52,144,93,82>>) @@
   ("G(uint,int)" :> <<214,169,173,9,51,155,58,237,26,246,237,235,160,62,161,25,220,116,29,255,26,127,191,254,117,246,65,167,33,144,186,151>>) @@
   ("G(uint,int256)" :> <<151,231,76,167,172,18,103,105,84,56,23,214,99,61,190,162,99,95,181,10,139,17,4,254,217,57,230,210,245,126,235,241>>) @@
   ("G(uint256,uint)" :> <<4,197,140,69,69,177,190,19,117,20,108,107,226,198,187,26,85,95,248,138,36,75,182,64,229,192,245,76,185,3,165,156>>) @@
   ("G(uint256,uint256)" :> <<209,203,70,238,191,167,67,24,161,81,169,120,154,106,95,49,237,125,155,85,15,249,230,171,20,243,194,179,156,252,38,171>>) @@
   ("G(uint256,int)" :> <<227,93,219,220,60,141,156,187,178,174,206,97,229,70,188,103,90,141,236,59,236,116,143,9,80,237,106,124,236,28,168,103>>) @@
   ("G(uint256,int256)" :> <<61,191,170,170,36,79,126,222,228,74,112,40,154,9,170,94,125,35,178,60,173,48,218,224,99,39,77,116,9,59,103,184>>) @@
   ("G(int,uint)" :> <<10,96,146,41,111,190,232,105,253,105,21,20,176,44,102,203,251,156,182,152,157,39,10,184,2,72,207,137,49,53,39,14>>) @@
   ("G(int,uint256)" :> <<79,57,66,69,210,222,60,2,174,144,162,131,225,214,241,158,251,45,96,73,101,38,243,67,147,238,188,78,97,26,243,147>>) @@
   ("G(int,int)" :> <<171,102,161,220,240,201,82,184,80,65,28,137,50,183,254,198,105,147,86,34,116,5,93,63,18,64,207,60,189,136,62,100>>) @@
   ("G(int,int256)" :> <<226,102,78,47,201,190,255,233,13,217,108,118,60,83,150,157,42,245,162,120,62,12,40,103,33,109,136,201,177,12,16,65>>) @@
   ("G(int256,uint)" :> <<189,37,192,74,229,0,166,241,14,206,87,155,94,105,56,251,20,214,201,214,182,209,180,89,232,145,128,245,77,179,199,43>>) @@
   ("G(int256,uint256)" :> <<121,73,64,248,61,195,157,159,15,160,249,201,36,179,2,16,199,113,229,236,229,188,23,197,154,97,203,63,118,163,4,107>>) @@
   ("G(int256,int)" :> <<67,165,53,50,203,160,199,161,206,99,20,1,87,196,124,107,22,106,246,201,225,250,80,4,112,8,194,103,155,137,65,15>>) @@
   ("G(int256,int256)" :> <<73,130,53,145,146,2,213,72,96,46,211,81,99,221,191,134,231,121,11,137,130,247,126,40,44,29,161,251,157,7,244,243>>) @@
   ("g()" :> <<226,23,155,142,144,61,58,154,66,102,235,68,50,64,126,165,177,180,248,0,148,241,121,87,218,145,92,213,7,10,34,92>>) @@
   ("g(uint)" :> <<234,33,218,61,153,188,109,1,229,215,249,53,249,183,80,122,195,132,179,85,96,194,72,162,59,119,194,92,63,72,13,65>>) @@
   ("g(uint256)" :> <<228,32,38,74,54,230,48,12,103,252,24,60,79,61,79,110,163,214,228,193,168,31,187,11,70,69,227,132,123,223,68,182>>) @@
   ("g(int)" :> <<238,77,142,40,33,66,233,94,68,196,248,25,177,184,147,0,36,215,162,160,184,133,2,226,138,33,115,76,168,44,206,234>>) @@
   ("g(int256)" :> <<120,119,184,3,14,244,195,48,219,89,228,237,189,165,197,44,68,241,96,253,244,129,163,127,26,202,39,234,136,181,102,237>>) @@
   ("g(uint,uint)" :> <<111,224,149,131,149,194,15,10,194,49,105,96,176,237,96,94,81,114,174,4,239,74,129,30,153,185,113,145,34,214,58,110>>) @@
   ("g(uint,uint256)" :> <<72,254,167,143,96,30,155,62,117,27,152,114,84,44,231,190,3,124,238,47,65,170,90,225,206,175,22,241,72,92,51,114>>) @@
   ("g(uint,int)" :> <<241,222,189,192,172,74,164,52,245,172,128,227,106,34,57,129,74,40,187,100,145,129,43,43,230,32,101,59,60,117,153,3>>) @@
   ("g(uint,int256)" :> <<87,230,198,84,175,231,186,11,37,234,238,160,91,169,120,239,82,58,130,142,185,47,188,86,216,28,90,185,163,18,134,178>>) @@
   ("g(uint256,uint)" :> <<96,212,232,3,125,37,214,129,182,30,131,31,118,177,208,146,120,198,62,126,23,151,90,74,155,244,30,49,153,59,138,197>>) @@
   ("g(uint256,uint256)" :> <<28,214,90,228,60,103,141,10,51,111,22,88,84,109,180,161,251,247,148,84,202,206,66,247,81,221,121,200,179,0,93,25>>) @@
   ("g(uint256,int)" :> <<123,89,245,77,84,102,252,0,162,147,234,124,27,49,184,214,116,229,39,57,197,36,140,39,226,0,76,66,75,251,176,191>>) @@
   ("g(uint256,int256)" :> <<67,101,75,95,183,198,100,189,102,149,174,93,255,40,255,87,146,70,196,231,10,122,243,119,88,194,254,164,119,171,69,70>>) @@
   ("g(int,uint)" :> <<197,3,208,6,252,94,163,8,192,204,38,11,222,171,77,81,246,127,26,166,118,93,5,112,216,169,108,4,151,4,29,76>>) @@
   ("g(int,uint256)" :> <<8,56,253,227,23,142,103,141,239,50,42,36,242,1,141,209,246,48,37,140,30,200,219,54,53,158,202,46,212,183,255,148>>) @@
   ("g(int,int)" :> <<247,43,63,132,100,179,53,31,132,63,203,6,254,18,27,206,211,204,233,173,100,87,123,238,171,65,201,167,207,5,15,128>>) @@
   ("g(int,int256)" :> <<165,171,136,6,81,43,208,0,201,238,185,225,86,190,187,16,130,76,255,71,128,53,67,236,193,63,189,48,88,206,159,109>>) @@
   ("g(int256,uint)" :> <<104,178,216,7,156,223,93,218,48,23,218,201,175,232,244,154,99,86,114,65,52,121,2,104,221,238,249,78,40,231,3,187>>) @@
   ("g(int256,uint256)" :> <<60,1,34,59,89,39,115,9,4,129,45,250,37,35,44,40,40,59,217,31,161,112,171,30,196,130,243,70,167,113,160,169>>) @@
   ("g(int256,int)" :> <<39,75,109,147,15,177,94,167,111,12,124,17,168,177,93,110,117,42,169,39,14,234,213,132,86,26,153,248,233,65,193,61>>) @@
   ("g(int256,int256)" :> <<203,33,125,52,160,229,13,102,210,143,74,78,140,133,191,194,97,158,237,38,160,201,29,11,140,91,46,96,172,169,53,82>>) @@
   ("ev:f" :> <<227,9,32,220,251,234,10,34,180,97,227,134,209,161,236,239,92,113,221,165,99,117,214,46,216,134,101,38,61,193,45,165>>) @@
   ("ev:g" :> <<4,50,171,40,17,141,162,171,221,107,216,10,249,179,214,31,132,44,147,79,146,70,179,203,236,233,41,74,147,158,102,159>>) @@
   ("ev:G" :> <<217,74,112,144,176,201,244,59,80,166,33,221,107,185,143,204,171,134,122,194,11,39,64,242,166,134,101,19,92,151,211,148>>) @@
   ("evsig:f()" :> <<61,164,44,231,61,41,57,86,34,156,224,132,158,150,85,75,173,213,135,23,41,194,120,215,195,62,158,85,96,144,225,17>>) @@
   ("evsig:f(uint)" :> <<99,142,136,82,6,128,125,97,157,139,122,208,10,190,206,48,103,121,197,218,164,91,96,122,62,94,17,209,43,247,204,3>>) @@
   ("evsig:f(uint256)" :> <<71,193,189,246,79,255,124,15,59,216,76,249,37,41,192,58,74,220,126,94,166,200,196,56,219,105,133,183,84,244,245,218>>) @@
   ("evsig:f(int)" :> <<33,28,216,241,93,240,247,68,81,22,196,119,250,167,190,47,65,126,91,164,113,78,7,116,202,161,110,50,47,55,135,200>>) @@
   ("evsig:f(int256)" :> <<22,77,20,44,104,26,210,216,172,150,79,14,100,161,118,12,115,13,40,250,32,8,180,33,174,146,178,70,2,187,121,152>>) @@
   ("evsig:f(uint,uint)" :> <<10,103,158,212,108,214,248,101,145,59,50,216,198,142,16,40,34,133,155,25,48,75,152,147,181,96,99,210,95,116,61,230>>) @@
   ("evsig:f(uint,uint256)" :> <<240,176,129,133,6,40,207,75,122,31,32,236,199,77,230,123,131,249,65,86,63,201,176,211,46,77,246,41,70,41,234,233>>) @@
   ("evsig:f(uint,int)" :> <<131,151,89,217,230,74,26,47,96,47,208,146,222,228,135,222,9,16,250,162,29,31,114,249,59,85,35,83,218,138,229,41>>) @@
   ("evsig:f(uint,int256)" :> <<244,126,93,174,29,196,201,255,64,229,247,160,29,157,35,131,45,194,81,206,221,121,102,175,68,179,208,81,181,205,246,148>>) @@
   ("evsig:f(uint256,uint)" :> <<69,29,211,15,198,133,113,145,147,58,238,100,107,125,132,140,24,170,178,132,98,229,65,8,94,211,23,184,15,139,150,120>>) @@
   ("evsig:f(uint256,uint256)" :> <<66,124,5,214,19,180,42,120,33,82,105,229,131,218,123,95,153,150,2,236,120,150,105,29,166,55,149,152,104,198,53,40>>) @@
   ("evsig:f(uint256,int)" :> <<163,17,83,233,130,190,167,249,72,135,87,241,167,45,234,21,163,246,16,61,241,247,207,205,172,128,198,31,210,24,86,252>>) @@
   ("evsig:f(uint256,int256)" :> <<223,96,23,156,223,10,241,56,236,12,216,225,133,245,138,173,87,28,163,68,194,32,18,188,12,79,207,216,216,96,255,173>>) @@
   ("evsig:f(int,uint)" :> <<50,104,119,116,230,93,208,237,197,182,120,171,157,118,8,128,148,130,123,154,22,15,229,219,94,205,29,133,250,93,205,37>>) @@
   ("evsig:f(int,uint256)" :> <<155,124,112,200,225,35,248,49,128,208,145,95,53,157,254,134,40,4,34,145,230,149,207,156,48,59,230,138,17,32,247,116>>) @@
   ("evsig:f(int,int)" :> <<21,117,134,66,106,68,9,109,83,241,236,174,159,52,40,85,161,76,97,221,134,224,193,118,124,171,151,100,16,203,84,118>>) @@
   ("evsig:f(int,int256)" :> <<91,2,165,129,222,196,253,122,106,73,232,16,74,61,168,4,234,206,180,252,168,182,158,53,186,224,32,181,252,69,97,135>>) @@
   ("evsig:f(int256,uint)" :> <<7,103,254,239,147,84,208,247,76,186,44,212,32,22,41,35,183,95,58,101,166,136,227,104,163,174,57,49,177,35,141,33>>) @@
   ("evsig:f(int256,uint256)" :> <<177,167,54,94,210,113,90,67,235,63,203,169,68,228,30,109,33,210,201,49,133,157,180,54,80,165,22,247,101,254,27,55>>) @@
   ("evsig:f(int256,int)" :> <<214,84,241,56,135,153,187,193,86,107,214,102,179,241,164,35,215,198,189,22,47,49,105,152,210,238,18,199,138,76,1,174>>) @@
   ("evsig:f(int256,int256)" :> <<226,253,23,231,175,84,24,158,225,191,233,187,162,137,195,242,205,149,161,41,15,37,7,25,155,142,102,161,171,6,28,240>>) @@
   ("evsig:g()" :> <<34,41,239,24,92,175,248,232,171,3,138,221,188,21,5,47,132,27,8,228,161,155,141,239,108,90,109,69,6,50,200,150>>) @@
   ("evsig:g(uint)" :> <<234,14,19,236,241,159,213,123,40,13,65,164,40,46,120,73,41,53,159,39,125,15,145,111,29,18,240,51,181,63,210,38>>) @@
   ("evsig:g(uint256)" :> <<43,123,23,144,67,157,254,197,182,111,87,90,103,33,118,147,57,192,34,43,40,236,252,222,237,229,215,117,70,246,27,231>>) @@
   ("evsig:g(int)" :> <<253,59,247,19,151,209,132,231,213,65,160,147,204,194,60,86,145,221,162,119,133,243,219,143,99,14,208,244,241,24,185,107>>) @@
   ("evsig:g(int256)" :> <<147,13,137,94,169,55,179,47,19,144,87,89,85,39,4,162,180,196,97,93,19,24,31,174,77,159,182,33,13,252,242,188>>) @@
   ("evsig:g(uint,uint)" :> <<113,50,245,8,91,117,197,75,224,76,202,16,187,28,158,169,93,205,191,35,45,73,103,59,210,169,37,41,134,139,105,163>>) @@
   ("evsig:g(uint,uint256)" :> <<45,35,216,176,141,5,135,230,111,209,193,226,160,66,23,105,181,208,29,26,61,212,39,155,208,155,225,43,121,95,77,93>>) @@
   ("evsig:g(uint,int)" :> <<254,48,112,223,125,78,34,158,53,182,169,50,163,250,189,21,86,90,9,14,117,251,39,176,146,164,43,189,99,92,145,55>>) @@
   ("evsig:g(uint,int256)" :> <<130,29,233,193,151,251,7,42,21,90,29,118,227,245,179,76,147,239,195,86,164,84,233,69,141,103,46,194,3,76,46,207>>) @@
   ("evsig:g(uint256,uint)" :> <<135,126,80,179,192,10,116,9,135,93,70,1,87,97,203,143,159,140,124,26,75,70,234,80,8,193,240,202,19,134,24,153>>) @@
   ("evsig:g(uint256,uint256)" :> <<67,114,121,218,195,46,47,182,254,172,0,31,240,118,5,112,143,129,24,182,90,60,180,72,180,100,196,20,150,54,234,91>>) @@
   ("evsig:g(uint256,int)" :> <<197,31,132,114,194,32,213,193,168,63,139,196,4,195,208,86,80,237,184,15,101,115,247,141,254,135,99,141,111,240,133,176>>) @@
   ("evsig:g(uint256,int256)" :> <<120,187,205,71,220,31,227,253,236,203,63,81,59,159,93,110,225,13,93,178,134,183,14,139,169,170,131,26,141,111,241,219>>) @@
   ("evsig:g(int,uint)" :> <<56,120,194,170,115,10,221,102,154,56,117,247,72,26,226,105,149,53,74,8,98,49,46,194,204,9,24,137,21,217,229,172>>) @@
   ("evsig:g(int,uint256)" :> <<15,0,204,161,9,64,96,96,52,149,14,233,207,192,18,39,190,105,250,37,40,128,14,3,31,112,239,10,234,156,128,19>>) @@
   ("evsig:g(int,int)" :> <<34,14,173,221,210,196,69,158,199,120,194,180,8,45,57,156,54,119,99,235,37,108,33,137,45,11,254,98,215,210,64,35>>) @@
   ("evsig:g(int,int256)" :> <<215,40,21,207,149,47,93,239,126,101,84,5,132,170,45,101,249,147,11,203,10,235,252,5,122,3,180,239,76,87,202,146>>) @@
   ("evsig:g(int256,uint)" :> <<153,91,5,114,111,10,3,0,75,110,118,51,69,250,226,71,117,112,66,29,72,203,249,160,44,236,85,72,145,15,78,236>>) @@
   ("evsig:g(int256,uint256)" :> <<231,124,138,203,92,167,168,69,175,131,155,61,158,17,61,175,175,52,45,50,131,16,105,198,11,120,185,143,40,225,104,112>>) @@
   ("evsig:g(int256,int)" :> <<210,185,210,68,31,14,120,237,192,150,150,12,135,147,61,158,137,110,31,98,172,112,43,71,220,209,43,245,89,207,70,169>>) @@
   ("evsig:g(int256,int256)" :> <<233,4,6,156,186,38,227,23,44,1,140,171,55,0,0,115,171,57,93,255,173,0,197,185,70,82,139,188,213,184,198,154>>) @@
   ("evsig:G()" :> <<211,56,99,99,250,239,172,163,2,255,194,1,46,150,233,89,111,136,218,67,184,232,133,57,62,23,149,79,21,168,73,86>>) @@
   ("evsig:G(uint)" :> <<13,238,96,85,252,200,63,200,169,78,233,192,236,4,226,162,143,197,22,162,160,181,139,196,27,153,184,31,212,106,75,131>>) @@
   ("evsig:G(uint256)" :> <<242,89,254,230,162,199,191,98,205,135,122,2,242,237,123,160,177,44,133,196,166,91,226,204,128,114,133,201,22,190,63,231>>) @@
   ("evsig:G(int)" :> <<116,144,200,39,4,238,250,111,118,142,164,5,113,165,76,245,131,165,249,63,134,52,200,129,190,126,239,231,228,192,22,211>>) @@
   ("evsig:G(int256)" :> <<78,204,11,152,219,53,100,207,171,99,137,165,245,205,87,162,94,148,62,11,180,25,138,188,176,66,82,37,49,248,114,175>>) @@
   ("evsig:G(uint,uint)" :> <<21,189,85,16,88,78,7,216,164,197,82,163,5,92,165,82,137,148,171,57,42,187,252,94,70,175,49,161,3,140,76,50>>) @@
   ("evsig:G(uint,uint256)" :> <<8,162,61,93,210,207,167,147,241,179,32,103,103,210,152,206,143,46,252,228,228,160,144,99,140,173,132,37,180,140,129,173>>) @@
   ("evsig:G(uint,int)" :> <<112,231,39,44,7,117,77,30,79,218,242,61,190,221,28,5,85,197,225,19,218,114,17,236,84,188,238,228,180,132,174,248>>) @@
   ("evsig:G(uint,int256)" :> <<122,226,227,253,13,35,106,95,226,145,202,212,52,228,204,236,123,82,194,110,16,126,139,95,136,74,16,33,225,242,81,6>>) @@
   ("evsig:G(uint256,uint)" :> <<6,146,168,208,240,95,148,85,119,38,229,8,176,6,10,62,127,213,107,113,53,104,115,61,219,209,37,155,143,210,177,66>>) @@
   ("evsig:G(uint256,uint256)" :> <<164,93,243,222,229,163,93,12,79,141,194,68,131,221,78,21,104,4,82,18,87,5,83,195,20,101,44,163,127,124,11,125>>) @@
   ("evsig:G(uint256,int)" :> <<217,226,218,151,238,231,110,249,98,118,50,188,215,194,216,184,242,17,82,184,123,61,2,178,124,114,208,229,153,246,72,88>>) @@
   ("evsig:G(uint256,int256)" :> <<89,138,165,112,22,126,73,195,200,165,130,225,161,120,13,174,225,103,46,75,32,25,80,156,63,238,12,53,32,175,4,1>>) @@
   ("evsig:G(int,uint)" :> <<166,165,124,30,38,186,96,162,182,163,75,226,198,200,79,94,37,232,59,139,250,79,238,181,151,66,15,31,53,229,255,39>>) @@
   ("evsig:G(int,uint256)" :> <<25,25,222,175,238,79,17,104,30,52,201,244,172,197,48,107,177,64,92,242,227,187,68,23,156,192,218,82,2,32,10,248>>) @@
   ("evsig:G(int,int)" :> <<52,98,109,214,90,123,92,244,173,89,140,136,118,39,174,123,85,102,122,105,171,179,120,55,133,196,252,199,73,182,221,237>>) @@
   ("evsig:G(int,int256)" :> <<199,36,216,33,210,57,139,66,18,0,149,246,69,64,19,6,1,251,36,214,79,182,221,148,78,128,219,227,125,146,130,219>>) @@
   ("evsig:G(int256,uint)" :> <<168,25,217,209,144,204,127,139,205,255,64,137,154,198,156,26,157,63,18,201,224,232,167,98,121,4,22,167,217,165,201,211>>) @@
   ("evsig:G(int256,uint256)" :> <<117,141,205,92,71,2,52,9,0,206,145,161,213,193,107,155,95,226,22,102,238,249,185,71,132,164,45,253,150,189,130,148>>) @@
   ("evsig:G(int256,int)" :> <<124,22,167,47,53,139,172,76,161,118,198,194,164,217,92,136,215,204,203,123,71,80,164,138,0,64,234,55,125,30,129,9>>) @@
   ("evsig:G(int256,int256)" :> <<53,180,53,240,114,118,0,58,158,100,195,83,76,185,121,132,180,227,236,117,191,238,165,37,90,177,203,155,51,112,226,106>>) @@
   ("mut:nonpayable" :> <<213,31,238,166,149,68,114,68,136,72,171,18,248,202,236,235,78,216,240,225,125,221,237,37,113,248,175,127,16,181,2,215>>) @@
   ("mut:payable" :> <<158,67,104,16,191,252,19,128,21,161,133,103,77,79,159,77,217,205,223,125,99,226,101,54,11,35,6,232,89,227,144,181>>) @@
   ("mut:view" :> <<99,80,1,30,54,42,136,248,147,192,126,162,95,104,90,175,140,103,24,134,204,191,209,100,128,198,236,142,20,62,33,111>>) @@
   ("mut:pure" :> <<89,177,76,51,188,216,220,104,96,30,188,231,68,10,67,246,159,214,24,159,156,179,114,141,42,72,106,126,50,14,182,33>>) @@
   ("type:uint" :> <<163,107,143,80,245,130,227,218,65,130,197,113,77,3,201,156,40,217,239,145,249,3,63,32,29,247,189,118,204,233,197,90>>) @@
   ("type:uint256" :> <<148,226,161,110,64,7,40,221,158,184,189,210,12,198,41,12,165,47,172,195,19,56,11,180,160,192,65,252,51,174,35,173>>) @@
   ("type:int" :> <<68,211,155,179,181,199,16,221,66,76,73,68,82,22,34,147,193,229,25,144,117,83,131,150,233,175,104,114,187,239,139,157>>) @@
   ("type:int256" :> <<239,194,189,95,20,102,226,180,197,20,216,145,189,50,204,67,28,160,109,200,118,8,231,28,149,21,112,7,7,8,77,188>>) @@
   ("type:" :> <<5,53,66,97,59,204,253,40,178,9,11,249,151,181,45,217,81,53,167,192,83,145,114,188,111,11,38,20,115,105,65,9>>) @@
   ("nfunc:0" :> <<187,182,161,195,43,37,80,18,59,34,72,44,211,69,106,156,110,196,196,0,6,213,115,234,52,148,53,217,193,187,74,80>>) @@
   ("nfunc:1" :> <<36,247,42,74,69,202,217,207,80,52,47,86,225,15,166,78,18,110,109,250,250,116,57,78,198,132,244,191,175,75,35,246>>) @@
   ("nfunc:2" :> <<178,126,131,85,253,124,145,48,49,123,246,0,13,116,7,190,178,217,61,1,50,151,158,164,107,11,72,237,177,127,102,87>>) @@
   ("nfunc:3" :> <<130,104,80,15,84,152,112,122,203,236,37,122,136,203,56,237,33,145,205,41,234,143,148,205,93,51,31,74,87,115,142,43>>) @@
   ("nfunc:4" :> <<241,144,47,54,255,120,7,55,251,97,148,212,9,170,194,82,63,88,1,224,76,12,46,16,87,230,244,14,159,110,28,106>>) @@
   ("nfunc:5" :> <<213,101,137,107,41,123,161,32,181,254,194,141,173,30,141,10,243,223,168,2,235,25,144,221,232,89,196,212,55,128,142,31>>) @@
   ("nfunc:6" :> <<216,163,109,14,100,36,122,215,249,158,192,241,191,4,130,158,86,127,143,160,69,68,55,58,142,182,20,16,201,199,110,104>>) @@
   ("nfunc:7" :> <<102,89,113,211,205,1,243,228,110,43,127,47,241,80,84,142,146,115,58,230,81,140,169,51,68,18,224,62,33,241,170,114>>) @@
   ("nfunc:8" :> <<44,240,129,38,13,185,154,146,113,252,222,33,133,35,204,227,54,205,158,4,187,252,95,233,143,135,118,250,218,84,146,6>>) @@
   ("nfunc:9" :> <<213,86,179,102,109,2,137,28,172,140,178,144,110,64,151,104,69,11,75,81,61,101,75,81,40,126,176,65,220,176,112,142>>) @@
   ("nevent:0" :> <<253,105,85,197,52,47,47,0,248,52,231,129,240,165,250,90,118,196,167,6,162,192,193,95,107,134,85,161,55,29,22,150>>) @@
   ("nevent:1" :> <<144,45,94,97,159,88,137,46,55,245,64,158,31,46,189,243,17,209,172,113,208,191,204,0,210,42,83,89,238,97,17,145>>) @@
   ("nevent:2" :> <<93,165,25,231,180,45,182,112,181,205,41,152,181,109,123,186,73,201,147,59,10,229,230,67,65,91,242,200,140,246,122,114>>) @@
   ("nevent:3" :> <<188,91,76,43,213,128,11,61,24,34,175,1,28,16,47,217,56,147,65,43,112,110,177,129,65,125,167,91,162,153,220,103>>) @@
   ("nevent:4" :> <<7,240,154,107,149,122,76,3,196,65,159,90,157,186,57,159,120,44,228,72,122,222,178,214,127,170,206,204,205,94,119,41>>) @@
   ("nevent:5" :> <<126,33,115,224,202,11,119,165,235,97,182,42,177,38,131,185,201,168,252,97,48,237,211,185,33,1,14,29,177,241,103,179>>) @@
   ("nevent:6" :> <<227,223,126,95,223,146,6,136,190,124,206,248,216,113,222,94,62,235,163,160,111,102,234,42,201,149,150,157,241,137,34,183>>) @@
   ("nevent:7" :> <<168,61,124,186,19,50,136,19,44,97,65,196,45,196,248,126,71,212,134,10,50,149,43,241,115,42,192,110,46,129,46,205>>) @@
   ("nevent:8" :> <<151,49,86,159,196,81,206,179,46,132,170,200,111,13,202,142,144,130,66,24,168,10,58,19,126,185,1,122,4,27,150,203>>) @@
   ("nevent:9" :> <<207,20,238,220,200,53,55,23,231,183,185,46,3,131,213,223,151,205,27,230,213,148,7,226,120,142,27,40,12,195,213,191>>) @@
   ("nsel:0" :> <<81,138,170,108,50,206,140,127,11,238,18,97,208,172,179,80,244,225,53,78,49,21,162,163,96,161,0,125,55,2,249,227>>) @@
   ("nsel:1" :> <<167,156,236,247,11,41,195,66,89,101,204,121,151,176,23,136,197,106,75,150,218,49,88,253,104,179,154,41,145,173,0,97>>) @@
   ("nsel:2" :> <<158,32,167,172,36,148,28,134,242,221,80,7,76,47,99,84,20,64,228,251,221,176,95,86,91,137,171,108,188,40,91,87>>) @@
   ("nsel:3" :> <<253,86,171,2,123,211,214,46,233,211,77,48,212,121,90,212,133,146,128,210,219,9,219,213,23,6,107,121,109,48,254,183>>) @@
   ("nsel:4" :> <<204,209,34,38,130,102,84,253,116,158,112,147,124,210,8,92,122,61,113,222,41,50,179,233,234,50,105,193,12,244,207,194>>) @@
   ("nsel:5" :> <<53,252,210,40,23,230,161,228,63,164,235,203,228,197,229,202,40,154,137,208,202,80,131,168,197,93,151,102,127,75,195,129>>) @@
   ("nsel:6" :> <<130,153,255,64,209,47,81,238,94,167,37,215,51,8,219,195,183,128,29,246,255,43,163,137,143,106,122,187,76,57,249,118>>) @@
   ("nsel:7" :> <<159,189,252,102,112,84,189,222,203,151,116,2,30,0,5,106,119,179,72,194,75,216,101,231,100,20,234,154,247,44,37,27>>) @@
   ("nsel:8" :> <<180,109,182,13,172,194,61,89,8,188,247,239,89,13,222,94,66,162,232,237,251,61,174,247,203,9,237,26,89,25,161,80>>) @@
   ("nsel:9" :> <<20,99,21,54,176,4,121,191,73,56,176,215,87,166,232,133,235,156,91,178,195,16,195,148,183,52,245,41,130,17,114,20>>) @@
   ("__constructor__(nonpayable)" :> <<62,20,69,247,209,84,170,217,140,178,81,65,30,190,130,117,212,237,153,133,237,57,53,158,181,214,202,207,87,251,66,92>>) @@
   ("__constructor__(payable)" :> <<36,131,78,136,218,201,25,27,137,216,205,141,230,58,8,85,84,15,250,81,2,32,135,62,19,131,111,250,173,62,24,179>>) @@
   ("__constructor__(view)" :> <<25,101,139,118,72,102,11,114,104,69,127,158,46,169,248,252,43,3,246,136,56,109,190,115,105,141,80,187,172,161,26,86>>) @@
   ("__constructor__(pure)" :> <<191,179,156,190,164,110,205,200,193,118,59,149,240,238,188,158,102,141,128,111,45,152,33,42,248,54,187,153,202,200,160,112>>) @@
   ("__fallback__(nonpayable)" :> <<198,1,209,173,231,12,205,171,215,64,208,66,205,61,193,133,68,114,237,10,203,55,79,249,242,177,249,41,222,28,5,14>>) @@
   ("__fallback__(payable)" :> <<14,251,180,190,232,80,96,8,74,138,66,251,218,160,48,200,97,51,241,84,35,71,250,103,101,134,155,17,214,132,226,0>>) @@
   ("__fallback__(view)" :> <<92,38,35,109,105,189,150,187,92,26,241,249,33,40,210,25,118,96,73,204,218,214,174,128,211,43,244,198,252,127,32,142>>) @@
   ("__fallback__(pure)" :> <<22,143,232,111,75,166,220,33,145,4,67,151,225,6,154,72,62,49,112,36,38,198,23,249,126,168,241,184,157,120,189,220>>) @@
   ("__receive__(nonpayable)" :> <<128,127,124,143,158,28,135,107,132,14,243,190,105,8,206,48,181,188,5,90,136,83,219,143,51,162,228,2,204,133,108,23>>) @@
   ("__receive__(payable)" :> <<159,44,204,56,223,227,84,112,148,30,195,242,164,85,152,191,176,89,94,89,131,201,207,181,210,150,41,80,96,31,135,76>>) @@
   ("__receive__(view)" :> <<133,119,31,147,236,69,41,115,170,215,107,56,182,133,78,195,82,215,192,141,156,26,213,101,5,237,60,138,155,45,68,27>>) @@
   ("__receive__(pure)" :> <<1,22,243,71,16,176,26,193,156,65,84,25,192,127,25,211,240,14,38,196,178,209,221,92,172,75,249,130,253,184,33,198>>)

\* keccak(text=s): the 32-byte digest of the UTF-8 bytes of s.
keccak(s) == KeccakTab[Str(s)]

\* Bit k (0 = least significant) of the byte b.
ByteBit(b, k) == (b \div (2 ^ k)) % 2

\* bytes.hex()
Hex(bytes) ==
    [k \in 1..(2 * Len(bytes)) |->
        IF k % 2 = 1 THEN HexChars[(bytes[(k + 1) \div 2] \div 16) + 1]
                     ELSE HexChars[(bytes[k \div 2] % 16) + 1]]

\* "0x" + keccak(text=sig)[:4].hex()
fourbyte(sig) == <<"0", "x">> \o Hex(SubSeq(keccak(sig), 1, 4))

(***************************************************************************)
(* SimHash (64-bit)                                                        *)
(***************************************************************************)
Bits == 0..(FpBits - 1)

\* Bit i of int.from_bytes(h[8c : 8c+8], "big"), c = 0..3.
ChunkBit(h, c, i) == ByteBit(h[8 * c + 8 - (i \div 8)], i % 8)

\* The xor of the four 64-bit chunks of a digest, masked to 64 bits.
Fold64(h) ==
    [i \in Bits |->
        (ChunkBit(h, 0, i) + ChunkBit(h, 1, i) + ChunkBit(h, 2, i) + ChunkBit(h, 3, i)) % 2]

\* _hash64 of every string of KeccakTab, computed once.
Hash64Tab == [s \in DOMAIN KeccakTab |-> Fold64(KeccakTab[s])]

\* _hash64(s)
hash64(s) == Hash64Tab[Str(s)]

ZeroVec == [i \in Bits |-> 0]

\* AddToken with the accumulator assigned (=) where the code adds (+=).
AddTokenAssign(v, t) ==
    LET hv == hash64(t[1]) IN
    [i \in Bits |-> IF hv[i] = 1 THEN t[2] ELSE -t[2]]

\* Loop body of simhash64 for one token t = <<tok, wt>>.
AddToken(v, t) ==
    LET hv == hash64(t[1]) IN
    [i \in Bits |-> v[i] + (IF hv[i] = 1 THEN t[2] ELSE -t[2])]

\* SignBit with the test > 0 where the code tests >= 0.
SignBitStrict(a) == IF a > 0 THEN 1 ELSE 0

\* Output bit of one accumulator: set when the accumulator is >= 0.
SignBit(a) == IF a >= 0 THEN 1 ELSE 0

\* The second loop of simhash64: the fingerprint of the accumulators.
Fingerprint(v) == [i \in Bits |-> SignBit(v[i])]

RECURSIVE Accumulate(_, _)
\* The first loop of simhash64, from accumulators v over the tokens toks.
Accumulate(v, toks) ==
    IF toks = <<>> THEN v ELSE Accumulate(AddToken(v, Head(toks)), Tail(toks))

simhash64(toks) == Fingerprint(Accumulate(ZeroVec, toks))

\* The 64-bit values 0 and 2^64 - 1.
Zero64    == [i \in Bits |-> 0]
AllOnes64 == [i \in Bits |-> 1]

\* (a ^ b).bit_count()
hamming(a, b) == Cardinality({i \in Bits : a[i] # b[i]})

\* 1.0 - hamming(a, b) / 64.0
simhash_similarity(a, b) == FSub(FOne, Frac(hamming(a, b), FpBits))

(***************************************************************************)
(* simhash64 as a routine: one step per token, then the return.            *)
(***************************************************************************)
\* Tokens the routine is exercised on: real tokens of the tokenizer.
SampleTokens ==
    { <<S_f, 3>>,
      <<S_f \o <<"(">> \o S_uint256 \o <<")">>, 5>>,
      <<<<"m","u","t",":">> \o S_view, 2>>,
      <<<<"t","y","p","e",":">> \o S_uint256, 1>> }

SeqsUpTo(S, n) == UNION {[1..m -> S] : m \in 0..n}

IdleSimhash == sh_in = <<>> /\ sh_k = 0 /\ vec = ZeroVec /\ out = Zero64
IdleJaccard == ja = <<>> /\ jb = <<>> /\ jres = FZero
IdleMatch ==
    /\ files = <<>> /\ top = DefaultTop /\ views = <<>> /\ tokens = <<>>
    /\ pairs = <<>> /\ top_pairs = <<>> /\ pi = 0 /\ pj = 0

jaccardVars == <<ja, jb, jres>>
simhashVars == <<sh_in, sh_k, vec, out>>
matchVars   == <<files, top, views, tokens, pairs, top_pairs, pi, pj>>

InitSimhash ==
    /\ pc = "simhash_loop"
    /\ sh_in \in SeqsUpTo(SampleTokens, MaxTokens)
    /\ sh_k = 0 /\ vec = ZeroVec /\ out = Zero64
    /\ IdleJaccard /\ IdleMatch

\* for tok, wt in tokens: ... vec[i] += wt if bit else -wt
SimhashIter ==
    /\ pc = "simhash_loop"
    /\ sh_k < Len(sh_in)
    /\ vec' = AddToken(vec, sh_in[sh_k + 1])
    /\ sh_k' = sh_k + 1
    /\ UNCHANGED <<pc, sh_in, out, jaccardVars, matchVars>>

\* for i in range(64): if vec[i] >= 0: out |= (1<<i) ; return out
SimhashReturn ==
    /\ pc = "simhash_loop"
    /\ sh_k = Len(sh_in)
    /\ out' = Fingerprint(vec)
    /\ pc' = "simhash_done"
    /\ UNCHANGED <<sh_in, sh_k, vec, jaccardVars, matchVars>>

NextSimhash == SimhashIter \/ SimhashReturn

SpecSimhash == InitSimhash /\ [][NextSimhash]_vars

\* The argument list reordered by the permutation p of its positions.
Permuted(s, p) == [k \in 1..Len(s) |-> s[p[k]]]

\* C1 (as stated): simhash64 of an empty token list returns fingerprint 0.
C1_EmptyIsZero ==
    (pc = "simhash_done" /\ sh_in = <<>>) => out = Zero64

\* C1 (amended): simhash64 of an empty token list returns the fingerprint
\* with all 64 bits set, 2^64 - 1: every accumulator is 0 and 0 >= 0 sets
\* the bit.
C1_EmptyIsAllOnes ==
    (pc = "simhash_done" /\ sh_in = <<>>) => out = AllOnes64

C1_Witness == pc = "simhash_done" /\ sh_in = <<>> /\ sh_k = 0

\* C2: the fingerprint returned for a token list equals the fingerprint of
\* every permutation of that list (repeated pairs counted separately).
C2_OrderIndependent ==
    pc = "simhash_done" =>
        \A p \in Permutations(1..Len(sh_in)) :
            simhash64(Permuted(sh_in, p)) = out

\* A list of three tokens, two of them the same pair, has been folded and
\* some reordering of it is a different list.
C2_Witness ==
    /\ pc = "simhash_done"
    /\ Len(sh_in) = 3
    /\ sh_in[1] = sh_in[3]
    /\ sh_in[1] # sh_in[2]
    /\ out # AllOnes64

(***************************************************************************)
(* Selector Jaccard                                                        *)
(***************************************************************************)
\* jaccard with the sizes taken from the lists, without set().
jaccardNoSets(a, b) ==
    IF Len(a) = 0 /\ Len(b) = 0 THEN FOne
    ELSE IF Len(a) = 0 \/ Len(b) = 0 THEN FZero
    ELSE LET inter == Cardinality({k \in 1..Len(a) : a[k] \in Range(b)})
         IN  Frac(inter, Len(a) + Len(b) - inter)

\* jaccard with 0.0 for two empty lists.
jaccardEmptyZero(a, b) ==
    LET sa == Range(a)
        sb == Range(b)
    IN  IF sa = {} \/ sb = {} THEN FZero
        ELSE Frac(Cardinality(sa \cap sb), Cardinality(sa \cup sb))

\* jaccard(a, b)
jaccard(a, b) ==
    LET sa == Range(a)
        sb == Range(b)
    IN  IF sa = {} /\ sb = {} THEN FOne
        ELSE IF sa = {} \/ sb = {} THEN FZero
        ELSE Frac(Cardinality(sa \cap sb), Cardinality(sa \cup sb))

\* Selectors the routine is exercised on.
SampleSelectors ==
    { fourbyte(S_f \o <<"(">> \o S_uint256 \o <<")">>),
      fourbyte(S_G \o <<"(">> \o S_int256 \o <<")">>),
      fourbyte(S_f \o <<"(", ")">>) }

InitJaccard ==
    /\ pc = "jaccard_call"
    /\ ja \in SeqsUpTo(SampleSelectors, MaxSelList)
    /\ jb \in SeqsUpTo(SampleSelectors, MaxSelList)
    /\ jres = FZero
    /\ IdleSimhash /\ IdleMatch

JaccardReturn ==
    /\ pc = "jaccard_call"
    /\ jres' = jaccard(ja, jb)
    /\ pc' = "jaccard_done"
    /\ UNCHANGED <<ja, jb, simhashVars, matchVars>>

NextJaccard == JaccardReturn

SpecJaccard == InitJaccard /\ [][NextJaccard]_vars

\* C7: jaccard(a, b) is 1.0 when both lists are empty, 0.0 when exactly one
\* is, otherwise |Sa \cap Sb| / |Sa \cup Sb| over the sets of distinct
\* elements; it lies in [0, 1]; and every pair of lists with the same
\* distinct elements (any order, any duplication) gets the same value.
C7_Jaccard ==
    pc = "jaccard_done" =>
        LET Sa == Range(ja)
            Sb == Range(jb)
        IN  /\ (Sa = {} /\ Sb = {}) => jres = FOne
            /\ ((Sa = {}) # (Sb = {})) => jres = FZero
            /\ (Sa # {} /\ Sb # {}) =>
                   /\ jres[2] > 0
                   /\ jres[1] * Cardinality(Sa \cup Sb) = Cardinality(Sa \cap Sb) * jres[2]
            /\ FLeq(FZero, jres) /\ FLeq(jres, FOne)
            /\ \A a2, b2 \in SeqsUpTo(SampleSelectors, MaxSelList) :
                   (Range(a2) = Sa /\ Range(b2) = Sb) => jaccard(a2, b2) = jres

\* A call with a duplicated element on one side and a partial overlap.
C7_Witness ==
    /\ pc = "jaccard_done"
    /\ Len(ja) = 2 /\ ja[1] = ja[2]
    /\ Len(jb) = 2 /\ jb[1] # jb[2] /\ ja[1] \in Range(jb)
    /\ jres = <<1, 2>>

(***************************************************************************)
(* Signature builder                                                       *)
(***************************************************************************)
\* normalize_type without the uint alias.
normalize_typeNoUint(t) ==
    IF t = S_int THEN S_int256 ELSE t

\* normalize_type(t)
normalize_type(t) ==
    IF t = S_uint THEN S_uint256
    ELSE IF t = S_int THEN S_int256
    ELSE t

\* The normalized input types of a member, in order.
InputTypes(inputs) ==
    [k \in 1..Len(inputs) |-> normalize_type(Get(inputs[k], "type", <<>>))]

\* fn_signature(name, inputs)
fn_signature(name, inputs) ==
    name \o <<"(">> \o Join(InputTypes(inputs)) \o <<")">>

\* evsig_signature(name, inputs)
evsig_signature(name, inputs) ==
    name \o <<"(">> \o Join(InputTypes(inputs)) \o <<")">>

\* f"__{typ}__({st})"
PseudoSignature(typ, st) ==
    <<"_", "_">> \o typ \o <<"_", "_", "(">> \o st \o <<")">>

(***************************************************************************)
(* Feature extraction                                                      *)
(***************************************************************************)
PseudoKinds == {S_constructor, S_fallback, S_receive}

\* One iteration of the first loop of extract_contract_view: member `it`
\* appended to the lists c = [fns, evs, sels].
CollectMember(c, it) ==
    LET typ == Get(it, "type", S_function) IN
    IF typ = S_function THEN
        LET sig == fn_signature(Get(it, "name", <<>>), Get(it, "inputs", <<>>))
        IN  [c EXCEPT !.fns = Append(@, sig), !.sels = Append(@, fourbyte(sig))]
    ELSE IF typ = S_event THEN
        LET sig == evsig_signature(Get(it, "name", <<>>), Get(it, "inputs", <<>>))
        IN  [c EXCEPT !.evs = Append(@, sig)]
    ELSE IF typ \in PseudoKinds THEN
        [c EXCEPT !.fns = Append(@, PseudoSignature(typ, Get(it, "stateMutability", S_nonpayable)))]
    ELSE c

RECURSIVE CollectFrom(_, _)
CollectFrom(c, abi) ==
    IF abi = <<>> THEN c ELSE CollectFrom(CollectMember(c, Head(abi)), Tail(abi))

\* The lists fns, evs, sels after the first loop.
Collect(abi) == CollectFrom([fns |-> <<>>, evs |-> <<>>, sels |-> <<>>], abi)

\* Tokens of one function member.
FnTokens(it) ==
    LET nm     == Get(it, "name", <<>>)
        inputs == Get(it, "inputs", <<>>)
        sig    == fn_signature(nm, inputs)
        st     == Get(it, "stateMutability", S_nonpayable)
    IN  << <<Lower(nm), 3>>,
           <<Lower(sig), 5>>,
           <<<<"m","u","t",":">> \o st, 2>> >>
        \o [k \in 1..Len(inputs) |->
               <<<<"t","y","p","e",":">> \o normalize_type(Get(inputs[k], "type", <<>>)), 1>>]

\* Tokens of one event member.
EvTokens(it) ==
    LET nm  == Get(it, "name", <<>>)
        sig == evsig_signature(nm, Get(it, "inputs", <<>>))
    IN  << <<<<"e","v",":">> \o Lower(nm), 2>>,
           <<<<"e","v","s","i","g",":">> \o Lower(sig), 3>> >>

RECURSIVE FnLoop(_)
\* The loop over the function members.
FnLoop(abi) ==
    IF abi = <<>> THEN <<>>
    ELSE IF Get(Head(abi), "type", S_function) # S_function THEN FnLoop(Tail(abi))
    ELSE FnTokens(Head(abi)) \o FnLoop(Tail(abi))

RECURSIVE EvLoop(_)
\* The loop over the event members.
EvLoop(abi) ==
    IF abi = <<>> THEN <<>>
    ELSE IF Get(Head(abi), "type", <<>>) = S_event
         THEN EvTokens(Head(abi)) \o EvLoop(Tail(abi))
         ELSE EvLoop(Tail(abi))

\* The three global count tokens.
GlobalTokens(c) ==
    << <<<<"n","f","u","n","c",":">> \o Dec(Len(c.fns)), 1>>,
       <<<<"n","e","v","e","n","t",":">> \o Dec(Len(c.evs)), 1>>,
       <<<<"n","s","e","l",":">> \o Dec(Len(c.sels)), 1>> >>

\* The list `tokens` extract_contract_view hands to simhash64.
BuildTokens(abi) == FnLoop(abi) \o EvLoop(abi) \o GlobalTokens(Collect(abi))

RECURSIVE SortedStrings(_)
\* sorted(S) for a set S of strings.
SortedStrings(S) ==
    IF S = {} THEN <<>>
    ELSE LET m == CHOOSE x \in S : \A y \in S \ {x} : StrLess(x, y)
         IN  <<m>> \o SortedStrings(S \ {m})

\* extract_contract_view(path) for the file at `path` holding `abi`.
extract_contract_view(path, abi) ==
    LET c == Collect(abi) IN
    [ file      |-> path,
      name_hint |-> path,
      functions |-> c.fns,
      events    |-> c.evs,
      selectors |-> SortedStrings(Range(c.sels)),
      simhash64 |-> simhash64(BuildTokens(abi)) ]

(***************************************************************************)
(* match                                                                   *)
(***************************************************************************)
\* Blend with the two weights exchanged.
BlendSwapped(sim, jac) == FAdd(FMul(Frac(4, 10), sim), FMul(Frac(6, 10), jac))

\* 0.6*sim + 0.4*jac
Blend(sim, jac) == FAdd(FMul(Frac(6, 10), sim), FMul(Frac(4, 10), jac))

\* The PairReport of the views a and b.
PairOf(a, b) ==
    LET sim    == simhash_similarity(a.simhash64, b.simhash64)
        jac    == jaccard(a.selectors, b.selectors)
        common == SortedStrings(Range(a.selectors) \cap Range(b.selectors))
    IN  [ a |-> a.file, b |-> b.file, a_name |-> a.name_hint, b_name |-> b.name_hint,
          simhash_sim |-> sim, selector_jaccard |-> jac, score |-> Blend(sim, jac),
          common_selectors |-> common,
          only_a |-> Max(0, Len(a.selectors) - Len(common)),
          only_b |-> Max(0, Len(b.selectors) - Len(common)) ]

\* The sort key (-p.score, -p.selector_jaccard, -p.simhash_sim).
SortKey(p) == <<FNeg(p.score), FNeg(p.selector_jaccard), FNeg(p.simhash_sim)>>

\* Python's k1 < k2 on two key tuples.
KeyLess(k1, k2) ==
    \/ FLess(k1[1], k2[1])
    \/ /\ k1[1] = k2[1]
       /\ \/ FLess(k1[2], k2[2])
          \/ /\ k1[2] = k2[2]
             /\ FLess(k1[3], k2[3])

\* InsertStable with x placed in front of the elements equal to it.
InsertBeforeEqual(s, x) ==
    LET later == {k \in 1..Len(s) : ~KeyLess(SortKey(s[k]), SortKey(x))}
        at    == IF later = {} THEN Len(s) + 1
                 ELSE CHOOSE k \in later : \A m \in later : k <= m
    IN  SubSeq(s, 1, at - 1) \o <<x>> \o SubSeq(s, at, Len(s))

\* x placed into the sorted list s behind every element not greater than it.
InsertStable(s, x) ==
    LET later == {k \in 1..Len(s) : KeyLess(SortKey(x), SortKey(s[k]))}
        at    == IF later = {} THEN Len(s) + 1
                 ELSE CHOOSE k \in later : \A m \in later : k <= m
    IN  SubSeq(s, 1, at - 1) \o <<x>> \o SubSeq(s, at, Len(s))

RECURSIVE SortFrom(_, _)
SortFrom(s, rest) ==
    IF rest = <<>> THEN s ELSE SortFrom(InsertStable(s, Head(rest)), Tail(rest))

\* pairs.sort(key=...): list.sort is stable.
SortPairs(ps) == SortFrom(<<>>, ps)

\* pairs[:max(1, top)]
Truncate(ps, k) == SubSeq(ps, 1, Min(Len(ps), Max(1, k)))

\* Start of the inner range with the pair (i, i) included.
FirstJSelf(a) == a

\* Start of the inner range: for j in range(i+1, len(views)).
FirstJ(a) == a + 1

\* The loop indices after the pair (a, b) of n views; <<0, 0>> when the
\* nested loop is over.
NextIndices(a, b, n) ==
    IF b < n THEN <<a, b + 1>>
    ELSE IF a < n /\ FirstJ(a + 1) <= n THEN <<a + 1, FirstJ(a + 1)>>
    ELSE <<0, 0>>

(***************************************************************************)
(* Inputs                                                                  *)
(***************************************************************************)
\* ABI members as the JSON objects of an ABI file; absent keys are absent.
F1 == [type |-> S_function, name |-> S_f, inputs |-> <<[type |-> S_uint]>>,
       stateMutability |-> S_view]
F2 == [type |-> S_function, name |-> S_f, inputs |-> <<[type |-> S_uint256]>>,
       stateMutability |-> S_view]
F3 == [name |-> S_G, inputs |-> <<[type |-> S_int], [type |-> S_uint256]>>]
E1 == [type |-> S_event, name |-> S_G, inputs |-> <<[type |-> S_uint]>>]
K1 == [type |-> S_constructor]
K2 == [type |-> S_fallback, stateMutability |-> S_payable]

Members == {F1, F2, F3, E1, K1, K2}

\* The ABIs of the pair runs: every member list of at most MaxMembers members.
ABIs == SeqsUpTo(Members, MaxMembers)

\* The ABIs of the ranking runs.
Corpus == { <<F1, F3>>, <<F3, F2>>, <<F3, E1>>, <<K1>> }

SeqsFromTo(S, lo, hi) == UNION {[1..m -> S] : m \in lo..hi}

InitMatch ==
    /\ pc = "match_start"
    /\ views = <<>> /\ tokens = <<>> /\ pairs = <<>> /\ top_pairs = <<>>
    /\ pi = 0 /\ pj = 0
    /\ IdleSimhash /\ IdleJaccard

\* One or two files, each any ABI of ABIs, with the default --top.
InitPair ==
    /\ files \in SeqsFromTo(ABIs, 1, 2)
    /\ top = DefaultTop
    /\ InitMatch

\* One to MaxFiles files of the corpus, with --top 0..MaxTop or the default.
InitRank ==
    /\ files \in SeqsFromTo(Corpus, 1, MaxFiles)
    /\ top \in (0..MaxTop) \cup {DefaultTop}
    /\ InitMatch

\* if len(files) < 2: raise click.ClickException(...)
MatchReject ==
    /\ pc = "match_start"
    /\ Len(files) < 2
    /\ pc' = "match_rejected"
    /\ UNCHANGED <<simhashVars, jaccardVars, matchVars>>

MatchStart ==
    /\ pc = "match_start"
    /\ Len(files) >= 2
    /\ pc' = "match_extract"
    /\ UNCHANGED <<simhashVars, jaccardVars, matchVars>>

\* views = [extract_contract_view(p) for p in files], one call per step.
MatchExtract ==
    /\ pc = "match_extract"
    /\ LET k == Len(views) + 1 IN
       /\ tokens' = BuildTokens(files[k])
       /\ views' = Append(views, extract_contract_view(k, files[k]))
       /\ IF k = Len(files)
          THEN pc' = "match_pairs" /\ pi' = 1 /\ pj' = FirstJ(1)
          ELSE UNCHANGED <<pc, pi, pj>>
    /\ UNCHANGED <<simhashVars, jaccardVars, files, top, pairs, top_pairs>>

\* One iteration of the nested loop: pairs.append(PairReport(...)).
MatchPair ==
    /\ pc = "match_pairs"
    /\ pairs' = Append(pairs, PairOf(views[pi], views[pj]))
    /\ LET nx == NextIndices(pi, pj, Len(views)) IN
       /\ pi' = nx[1]
       /\ pj' = nx[2]
       /\ pc' = IF nx = <<0, 0>> THEN "match_sort" ELSE "match_pairs"
    /\ UNCHANGED <<simhashVars, jaccardVars, files, top, views, tokens, top_pairs>>

\* pairs.sort(key=...); top_pairs = pairs[:max(1, top)]
MatchSort ==
    /\ pc = "match_sort"
    /\ pairs' = SortPairs(pairs)
    /\ top_pairs' = Truncate(pairs', top)
    /\ pc' = "match_done"
    /\ UNCHANGED <<simhashVars, jaccardVars, files, top, views, tokens, pi, pj>>

NextMatch == MatchReject \/ MatchStart \/ MatchExtract \/ MatchPair \/ MatchSort

SpecPair == InitPair /\ [][NextMatch]_vars
SpecRank == InitRank /\ [][NextMatch]_vars

(***************************************************************************)
(* Properties of extraction and of a pair                                  *)
(***************************************************************************)
\* The positions of the two files a pair report compares.
FileA(p) == files[p.a]
FileB(p) == files[p.b]

\* Two inputs that are equal or spell the same type as uint and uint256.
SameInputUpToUint(x, y) ==
    \/ x = y
    \/ /\ DOMAIN x = DOMAIN y
       /\ "type" \in DOMAIN x
       /\ {x.type, y.type} = {S_uint, S_uint256}
       /\ \A key \in DOMAIN x \ {"type"} : x[key] = y[key]

\* Two members equal except for uint written as uint256 in some inputs.
SameMemberUpToUint(m, n) ==
    /\ DOMAIN m = DOMAIN n
    /\ \A key \in DOMAIN m \ {"inputs"} : m[key] = n[key]
    /\ "inputs" \in DOMAIN m =>
          /\ Len(m.inputs) = Len(n.inputs)
          /\ \A k \in 1..Len(m.inputs) : SameInputUpToUint(m.inputs[k], n.inputs[k])

\* B is A with its members permuted and uint/uint256 respelled.
PermutedUpToUint(A, B) ==
    /\ Len(A) = Len(B)
    /\ \E p \in Permutations(1..Len(A)) :
          \A k \in 1..Len(A) : SameMemberUpToUint(A[k], B[p[k]])

\* C3: two interfaces whose member lists differ only by a permutation and by
\* uint written as uint256 get equal fingerprints and equal selector lists,
\* and their pair report has simhash_sim, selector_jaccard and score 1.0.
C3_AliasPermutationClone ==
    /\ \A x, y \in 1..Len(views) :
          PermutedUpToUint(files[x], files[y]) =>
              /\ views[x].simhash64 = views[y].simhash64
              /\ views[x].selectors = views[y].selectors
    /\ \A k \in 1..Len(pairs) :
          PermutedUpToUint(FileA(pairs[k]), FileB(pairs[k])) =>
              /\ pairs[k].simhash_sim = FOne
              /\ pairs[k].selector_jaccard = FOne
              /\ pairs[k].score = FOne

\* A finished run on two files that differ in member order and in the
\* spelling of f's parameter type.
C3_Witness ==
    /\ pc = "match_done"
    /\ files = << <<F1, F3>>, <<F3, F2>> >>
    /\ Len(top_pairs) = 1
    /\ top_pairs[1].score = FOne

\* The canonical signatures of the function members / event members.
FnSigSet(abi) ==
    { fn_signature(Get(abi[k], "name", <<>>), Get(abi[k], "inputs", <<>>)) :
        k \in {m \in 1..Len(abi) : Get(abi[m], "type", S_function) = S_function} }
EvSigSet(abi) ==
    { evsig_signature(Get(abi[k], "name", <<>>), Get(abi[k], "inputs", <<>>)) :
        k \in {m \in 1..Len(abi) : Get(abi[m], "type", <<>>) = S_event} }

SharesNothing(A, B) ==
    /\ FnSigSet(A) \cap FnSigSet(B) = {}
    /\ EvSigSet(A) \cap EvSigSet(B) = {}

\* C4 (as stated): a pair of interfaces sharing no function and no event has
\* selector_jaccard 0.0 and score 0.6 * simhash_sim, also when neither
\* declares a function.
C4_DisjointAsStated ==
    \A k \in 1..Len(pairs) :
        SharesNothing(FileA(pairs[k]), FileB(pairs[k])) =>
            /\ pairs[k].selector_jaccard = FZero
            /\ pairs[k].score = FMul(Frac(6, 10), pairs[k].simhash_sim)

\* C4 (amended): a pair of interfaces sharing no function and no event has
\* selector_jaccard 0.0 and score 0.6 * simhash_sim when at least one of
\* them declares a function; when neither does, selector_jaccard is 1.0 and
\* score is 0.6 * simhash_sim + 0.4.
C4_Disjoint ==
    \A k \in 1..Len(pairs) :
        LET A == FileA(pairs[k])
            B == FileB(pairs[k])
        IN  SharesNothing(A, B) =>
                IF FnSigSet(A) # {} \/ FnSigSet(B) # {}
                THEN /\ pairs[k].selector_jaccard = FZero
                     /\ pairs[k].score = FMul(Frac(6, 10), pairs[k].simhash_sim)
                ELSE /\ pairs[k].selector_jaccard = FOne
                     /\ pairs[k].score =
                            FAdd(FMul(Frac(6, 10), pairs[k].simhash_sim), Frac(4, 10))

\* A finished run on two interfaces that both declare functions, none shared,
\* whose fingerprints are neither equal nor complementary.
C4_Witness ==
    /\ pc = "match_done"
    /\ files = << <<F1>>, <<F3, E1>> >>
    /\ pairs[1].selector_jaccard = FZero
    /\ FLess(FZero, pairs[1].score)
    /\ FLess(pairs[1].score, Frac(6, 10))

\* C8: a pair report of two identical interfaces has simhash_sim,
\* selector_jaccard and score 1.0, and every view compared with itself gives
\* similarity 1.0, Jaccard 1.0 and blend 1.0, also with no selectors.
C8_SelfSimilarity ==
    /\ \A k \in 1..Len(pairs) :
          FileA(pairs[k]) = FileB(pairs[k]) =>
              /\ pairs[k].simhash_sim = FOne
              /\ pairs[k].selector_jaccard = FOne
              /\ pairs[k].score = FOne
    /\ \A x \in 1..Len(views) :
          LET self == PairOf(views[x], views[x])
          IN  /\ self.simhash_sim = FOne
              /\ self.selector_jaccard = FOne
              /\ self.score = FOne

\* A finished run on the same function-less interface given twice.
C8_Witness ==
    /\ pc = "match_done"
    /\ files = << <<E1, K1>>, <<E1, K1>> >>
    /\ views[1].selectors = <<>>
    /\ pairs[1].score = FOne

\* The ABI of the latest extract_contract_view call.
LastAbi == files[Len(views)]

\* C9 (as stated): for every constructor, fallback or receive member the
\* token list handed to simhash64 holds the pseudo-signature with weight 3.
C9_PseudoSignatureToken ==
    Len(views) >= 1 =>
        \A k \in 1..Len(LastAbi) :
            Get(LastAbi[k], "type", S_function) \in PseudoKinds =>
                <<PseudoSignature(LastAbi[k].type,
                                  Get(LastAbi[k], "stateMutability", S_nonpayable)), 3>>
                    \in Range(tokens)

\* C10 (as stated): the nsel token carries the length of the view's
\* selectors list, the number of distinct selectors.
C10_NselCountsDistinct ==
    Len(views) >= 1 =>
        tokens[Len(tokens)] =
            <<<<"n","s","e","l",":">> \o Dec(Len(views[Len(views)].selectors)), 1>>

(***************************************************************************)
(* Properties of the ranking                                               *)
(***************************************************************************)
\* (score, selector_jaccard, simhash_sim) of p is lexicographically greater
\* than that of q.
RankedAbove(p, q) ==
    \/ FLess(q.score, p.score)
    \/ /\ q.score = p.score
       /\ \/ FLess(q.selector_jaccard, p.selector_jaccard)
          \/ /\ q.selector_jaccard = p.selector_jaccard
             /\ FLess(q.simhash_sim, p.simhash_sim)

SameRank(p, q) ==
    /\ p.score = q.score
    /\ p.selector_jaccard = q.selector_jaccard
    /\ p.simhash_sim = q.simhash_sim

\* p was enumerated before q by the nested loop.
EnumeratedBefore(p, q) == p.a < q.a \/ (p.a = q.a /\ p.b < q.b)

Ranked(ps) ==
    \A x, y \in 1..Len(ps) :
        x < y => \/ RankedAbove(ps[x], ps[y])
                 \/ SameRank(ps[x], ps[y]) /\ EnumeratedBefore(ps[x], ps[y])

\* C5: the ranked list is in descending lexicographic order of
\* (score, selector_jaccard, simhash_sim), and pairs equal on all three keep
\* their enumeration order (i ascending, then j ascending).
C5_RankedStable ==
    pc = "match_done" => Ranked(pairs) /\ Ranked(top_pairs)

\* A finished run of three files where sorting moved a pair forward and two
\* pairs tie on all three keys.
C5_Witness ==
    /\ pc = "match_done"
    /\ Len(pairs) = 3
    /\ <<pairs[1].a, pairs[1].b>> # <<1, 2>>
    /\ \E x, y \in 1..3 : x < y /\ SameRank(pairs[x], pairs[y])
    /\ \E x, y \in 1..3 : RankedAbove(pairs[x], pairs[y])

PairCount(n) == (n * (n - 1)) \div 2

\* C6: for N >= 2 files match builds exactly N(N-1)/2 pair reports, one for
\* each i < j and none for i = j, and for --top k >= 1 emits exactly the
\* first min(k, N(N-1)/2) entries of the sorted list.
C6_AllPairsThenTruncate ==
    pc \in {"match_sort", "match_done"} =>
        LET n == Len(files) IN
        /\ n >= 2
        /\ Len(pairs) = PairCount(n)
        /\ \A x \in 1..n : \A y \in 1..n :
              Cardinality({k \in 1..Len(pairs) : pairs[k].a = x /\ pairs[k].b = y})
                  = IF x < y THEN 1 ELSE 0
        /\ \A k \in 1..Len(pairs) :
              pairs[k] = PairOf(views[pairs[k].a], views[pairs[k].b])
        /\ (pc = "match_done" /\ top >= 1) =>
              /\ Ranked(pairs)
              /\ top_pairs = SubSeq(pairs, 1, Min(top, PairCount(n)))

\* A finished run of three files with --top 2: three reports, two emitted.
C6_Witness ==
    /\ pc = "match_done"
    /\ Len(files) = 3
    /\ top = 2
    /\ Len(pairs) = 3
    /\ Len(top_pairs) = 2

====
